---- MODULE Spec2Model ----
(***************************************************************************)
(* caffe2/contrib/script/compiler.cc: the lowering of script functions     *)
(* (DefCompiler) into NetDef operator graphs and the registry of compiled  *)
(* functions (CompilationUnitImpl).                                        *)
(*                                                                         *)
(* A NetDef is kept flat: `ops` lists every OperatorDef of the function in *)
(* the order add_op() created it, and each operation carries `net`, the    *)
(* identity of the NetDef it was added to.  The top-level NetDef is        *)
(* RootNet; the NetDef held by argument `a` of operation number k is       *)
(* <<k, a>>.  Exceptions are the field `err`: once it is set, nothing      *)
(* further is executed and the state at the throw is what remains.         *)
(***************************************************************************)
EXTENDS Integers, Sequences, FiniteSets, TLC

VARIABLES functions, history, outcome, source

vars == <<functions, history, outcome, source>>

(***************************************************************************)
(* Trees handed over by the parser.                                        *)
(***************************************************************************)
Ident(n) == [kind |-> "TK_IDENT", name |-> n]
Const(v, f) == [kind |-> "TK_CONST", doubleValue |-> v, stringValue |-> f]
Compound(k, ts) == [kind |-> k, trees |-> ts]
List(ts) == [kind |-> "TK_LIST", trees |-> ts]
Attribute(n, v) == [name |-> n, value |-> v]
Apply(n, ins, attrs) ==
  [kind |-> "TK_APPLY", name |-> n, inputs |-> ins, attributes |-> attrs]
Cast(t, in) == [kind |-> "TK_CAST", type |-> t, input |-> in]
Assign(ids, red, rhs) ==
  [kind |-> "TK_ASSIGN", idents |-> ids, reduction |-> red, rhs |-> rhs]
If(cond, tb, fb) ==
  [kind |-> "TK_IF", cond |-> cond, trueBranch |-> tb, falseBranch |-> fb]
While(cond, body) == [kind |-> "TK_WHILE", cond |-> cond, body |-> body]
Def(n, ps, rs, stmts) ==
  [name |-> n, params |-> ps, returns |-> rs, statements |-> stmts]

OperatorKinds ==
  {"TK_NE", "TK_EQ", "<", ">", "TK_LE", "TK_GE", "-", "*", "/", "+",
   "TK_AND", "TK_OR", "TK_NOT", "TK_IF_EXPR"}

TensorProto_DataType_FLOAT == 1
TensorProto_DataType_INT32 == 2
TensorProto_DataType_BOOL == 5
TensorProto_DataType_INT64 == 10

(***************************************************************************)
(* Protobuf messages.                                                      *)
(***************************************************************************)
RootNet == <<0, "">>

NewOp(net) ==
  [type |-> "", input |-> <<>>, output |-> <<>>, arg |-> <<>>, net |-> net]

\* An Argument: each value field is empty until its setter is called.
NewArg ==
  [name |-> "", f |-> <<>>, i |-> <<>>, floats |-> <<>>, ints |-> <<>>,
   n |-> <<>>]

ArgUnset(a) ==
  a.f = <<>> /\ a.i = <<>> /\ a.floats = <<>> /\ a.ints = <<>> /\ a.n = <<>>

(***************************************************************************)
(* DefCompiler.  `r` is the OperatorDef* a call returns (its number in     *)
(* ops), `v` the string a call returns, `vs` the vector getValues builds,  *)
(* `t` the type getType returns; `name` is the name of the top NetDef.     *)
(* `issued`, `discards` and `log` record what happened and are read by no  *)
(* operation.                                                              *)
(***************************************************************************)
DefCompiler(def) ==
  [def |-> def, ops |-> <<>>, net_def_stack |-> <<RootNet>>,
   env |-> [x \in {} |-> ""], next_fresh |-> 0, err |-> "none",
   name |-> "", r |-> 0, v |-> "", vs |-> <<>>, t |-> 0,
   issued |-> <<>>, discards |-> {}, log |-> <<>>]

Throw(c, e) == [c EXCEPT !.err = e]

cur(c) == c.net_def_stack[Len(c.net_def_stack)]

push_back(c, net) == [c EXCEPT !.net_def_stack = Append(@, net)]

pop_back(c) ==
  [c EXCEPT !.net_def_stack = SubSeq(@, 1, Len(@) - 1)]

add_op(c, type) ==
  [c EXCEPT !.ops = Append(@, [NewOp(cur(c)) EXCEPT !.type = type]),
            !.r = Len(c.ops) + 1]

add_input(c, k, name) == [c EXCEPT !.ops[k].input = Append(@, name)]

add_output(c, k, name) == [c EXCEPT !.ops[k].output = Append(@, name)]

set_output(c, k, i, name) == [c EXCEPT !.ops[k].output[i] = name]

add_arg(c, k, a) == [c EXCEPT !.ops[k].arg = Append(@, a)]

Note(c, ev, net, ids, names) ==
  [c EXCEPT !.log = Append(@, [ev |-> ev, net |-> net, env |-> c.env,
                                stack |-> c.net_def_stack,
                                nops |-> Len(c.ops),
                                idents |-> ids, names |-> names])]

map(c, name, value) ==
  [c EXCEPT !.env = [x \in (DOMAIN c.env) \cup {name} |->
                       IF x = name THEN value ELSE c.env[x]]]

\* lookup that hands back the identifier itself when nothing binds it.
lookup_unchecked(c, name) ==
  IF name \notin DOMAIN c.env
    THEN [c EXCEPT !.v = name]
    ELSE [c EXCEPT !.v = c.env[name]]

lookup(c, name) ==
  IF name \notin DOMAIN c.env
    THEN Throw(c, "UnboundIdentifier")
    ELSE [c EXCEPT !.v = c.env[name]]

\* fresh that does not advance the counter.
fresh_noincrement(c) ==
  LET name == "$t" \o ToString(c.next_fresh)
  IN [c EXCEPT !.v = name, !.issued = Append(@, name)]

\* fresh that names the counter modulo two.
fresh_onedigit(c) ==
  LET name == "$t" \o ToString(c.next_fresh % 2)
  IN [c EXCEPT !.next_fresh = @ + 1, !.v = name,
               !.issued = Append(@, name)]

fresh(c) ==
  LET name == "$t" \o ToString(c.next_fresh)
  IN [c EXCEPT !.next_fresh = @ + 1, !.v = name,
               !.issued = Append(@, name)]

RECURSIVE emit(_, _), getValue(_, _), getValuesFrom(_, _, _),
          emitStatementsFrom(_, _, _), emitIf(_, _), emitWhile(_, _),
          emitAssignment(_, _), emitFillOp(_, _), fillArgsFrom(_, _, _, _),
          addListValues(_, _, _), bindOutputsFrom(_, _, _, _)

\* What follows a call that may throw: F is the rest of the caller, run on
\* the state the call left unless the call threw.
Then(c, F(_)) == IF c.err # "none" THEN c ELSE F(c)

\* op->add_output(fresh()) on operation k, which the caller returns.
add_fresh_output(c, k) ==
  LET c1 == fresh(c)
  IN [add_output(c1, k, c1.v) EXCEPT !.r = k]

operatorName(kind, ninputs) ==
  CASE kind = "+" -> "Add"
    [] kind = "-" -> IF ninputs = 1 THEN "Negative" ELSE "Sub"
    [] kind = "*" -> "Mul"
    [] kind = "/" -> "Div"
    [] kind = "TK_NE" -> "NE"
    [] kind = "TK_EQ" -> "EQ"
    [] kind = "<" -> "LT"
    [] kind = ">" -> "GT"
    [] kind = "TK_LE" -> "LE"
    [] kind = "TK_GE" -> "GE"
    [] kind = "TK_IF_EXPR" -> "Conditional"
    [] kind = "TK_AND" -> "And"
    [] kind = "TK_OR" -> "Or"
    [] kind = "TK_NOT" -> "Not"
    [] OTHER -> "unknown kind"

\* The elements of a TK_LIST, each added to floats or to ints by its suffix.
addListValues(a, ts, j) ==
  IF j > Len(ts) THEN a
  ELSE addListValues(
         IF ts[j].stringValue = "f"
           THEN [a EXCEPT !.floats = Append(@, ts[j].doubleValue)]
           ELSE [a EXCEPT !.ints = Append(@, ts[j].doubleValue)],
         ts, j + 1)

\* fillArg(op->add_arg(), attr) on operation k.
fillArg(c, k, attr) ==
  LET named == [NewArg EXCEPT !.name = attr.name]
      value == attr.value
  IN add_arg(c, k,
       CASE value.kind = "TK_CONST" ->
              IF value.stringValue = "f"
                THEN [named EXCEPT !.f = <<value.doubleValue>>]
                ELSE [named EXCEPT !.i = <<value.doubleValue>>]
         [] value.kind = "TK_LIST" -> addListValues(named, value.trees, 1)
         [] OTHER -> named)

fillArgsFrom(c, k, attrs, j) ==
  IF j > Len(attrs) THEN c
  ELSE fillArgsFrom(fillArg(c, k, attrs[j]), k, attrs, j + 1)

getType(c, type) ==
  CASE type = "TK_INT" -> [c EXCEPT !.t = TensorProto_DataType_INT32]
    [] type = "TK_FLOAT" -> [c EXCEPT !.t = TensorProto_DataType_FLOAT]
    [] type = "TK_LONG" -> [c EXCEPT !.t = TensorProto_DataType_INT64]
    [] type = "TK_BOOL" -> [c EXCEPT !.t = TensorProto_DataType_BOOL]
    [] OTHER -> Throw(c, "UnknownType")

emitConst(c, v, output, type_ident) ==
  LET k == Len(c.ops) + 1
      dtype == [NewArg EXCEPT !.name = "dtype"]
      value == [NewArg EXCEPT !.name = "value"]
      shape == [NewArg EXCEPT !.name = "shape", !.ints = <<1>>]
      typed(d, val) ==
        [add_op(c, "ConstantFill") EXCEPT
           !.ops[k].arg = <<[dtype EXCEPT !.i = <<d>>], val>>]
  IN Then(CASE type_ident = "f" ->
                 typed(TensorProto_DataType_FLOAT, [value EXCEPT !.f = <<v>>])
            [] type_ident = "LL" ->
                 typed(TensorProto_DataType_INT64, [value EXCEPT !.i = <<v>>])
            [] type_ident = "b" ->
                 typed(TensorProto_DataType_BOOL,
                       [value EXCEPT !.i = <<IF v # 0 THEN 1 ELSE 0>>])
            [] type_ident = "i" ->
                 typed(TensorProto_DataType_INT32, [value EXCEPT !.i = <<v>>])
            [] OTHER ->
                 Throw([add_op(c, "ConstantFill") EXCEPT
                          !.ops[k].arg = <<dtype, value>>],
                       "MalformedLiteral"),
          LAMBDA c2 : [add_output(add_arg(c2, k, shape), k, output)
                         EXCEPT !.r = k])

getValue(c, tree) ==
  IF tree.kind = "TK_IDENT"
    THEN lookup(c, tree.name)
    ELSE Then(emit(c, tree),
              LAMBDA c1 : [c1 EXCEPT !.v = c1.ops[c1.r].output[1]])

\* getValues: c.vs holds the values of trees[1 .. j-1].
getValuesFrom(c, trees, j) ==
  IF j > Len(trees) THEN c
  ELSE Then(getValue(c, trees[j]),
            LAMBDA c1 : getValuesFrom([c1 EXCEPT !.vs = Append(c.vs, c1.v)],
                                      trees, j + 1))

getValues(c, trees) == getValuesFrom([c EXCEPT !.vs = <<>>], trees, 1)

Builtins == {"zeros", "zeros_like", "ones", "ones_like"}

IsLike(builtin_type) == builtin_type \in {"zeros_like", "ones_like"}

IsOnes(builtin_type) == builtin_type \in {"ones", "ones_like"}

\* emitFillOp from `auto op = cur().add_op()` on: c.vs are the values.
emitFillOpOp(c, apply) ==
  LET builtin_type == apply.name
      values == c.vs
      k == Len(c.ops) + 1
      input_as_shape ==
        [NewArg EXCEPT !.name = "input_as_shape",
                       !.i = <<IF IsLike(builtin_type) THEN 0 ELSE 1>>]
      value == [NewArg EXCEPT !.name = "value",
                              !.f = <<IF IsOnes(builtin_type) THEN 1 ELSE 0>>]
  IN add_fresh_output(
       add_arg(IF Len(values) > 0
                 THEN add_arg(add_input(add_op(c, "ConstantFill"), k,
                                        values[1]),
                              k, input_as_shape)
                 ELSE fillArg(add_op(c, "ConstantFill"), k,
                              apply.attributes[1]),
               k, value),
       k)

\* emitFillOp after getValues: the checks of the operands and attributes.
emitFillOpChecked(c, apply) ==
  LET builtin_type == apply.name
      values == c.vs
      attrs == apply.attributes
      has_shape == \E j \in 1..Len(attrs) : attrs[j].name = "shape"
      other == \E j \in 1..Len(attrs) : attrs[j].name # "shape"
  IN IF Len(values) > 1 THEN Throw(c, "IntrinsicArityError")
     ELSE IF other THEN Throw(c, "UnrecognizedAttribute")
     ELSE IF builtin_type \in {"zeros", "ones"}
             /\ Len(values) # 1 /\ ~has_shape
       THEN Throw(c, "IntrinsicArityError")
     ELSE IF builtin_type \notin {"zeros", "ones"} /\ Len(values) # 1
       THEN Throw(c, "IntrinsicArityError")
     ELSE emitFillOpOp(c, apply)

emitFillOp(c, apply) ==
  Then(getValues(c, apply.inputs), LAMBDA c1 : emitFillOpChecked(c1, apply))

emit(c, tree) ==
  CASE tree.kind = "TK_IDENT" ->
         Then(lookup(add_op(c, "Copy"), tree.name),
              LAMBDA c2 : add_fresh_output(add_input(c2, c2.r, c2.v), c2.r))
    [] tree.kind \in OperatorKinds ->
         Then(getValues(c, tree.trees),
              LAMBDA c1 :
                LET k == Len(c1.ops) + 1
                    type == operatorName(tree.kind, Len(tree.trees))
                    broadcast == [NewArg EXCEPT !.name = "broadcast",
                                                !.i = <<1>>]
                IN add_arg(add_fresh_output(
                             [add_op(c1, type) EXCEPT !.ops[k].input = c1.vs],
                             k),
                           k, broadcast))
    [] tree.kind = "TK_APPLY" ->
         IF tree.name \in Builtins THEN emitFillOp(c, tree)
         ELSE Then(getValues(c, tree.inputs),
                   LAMBDA c1 :
                     LET k == Len(c1.ops) + 1
                     IN fillArgsFrom(
                          add_fresh_output(
                            [add_op(c1, tree.name) EXCEPT
                               !.ops[k].input = c1.vs],
                            k),
                          k, tree.attributes, 1))
    [] tree.kind = "TK_CAST" ->
         Then(getType(c, tree.type),
              LAMBDA c1 :
                Then(getValue(c1, tree.input),
                     LAMBDA c2 :
                       LET k == Len(c2.ops) + 1
                           to == [NewArg EXCEPT !.name = "to",
                                                !.i = <<c1.t>>]
                       IN add_arg(add_fresh_output(
                                    add_input(add_op(c2, "Cast"), k, c2.v),
                                    k),
                                  k, to)))
    [] tree.kind = "TK_CONST" ->
         LET c1 == fresh(c)
         IN emitConst(c1, tree.doubleValue, c1.v, tree.stringValue)
    [] OTHER -> Throw(c, "UnsupportedConstruct")

\* The loop of emitAssignment without the renaming of `_`.
bindOutputsFrom_norename(c, k, idents, j) ==
  IF j > Len(idents) THEN c
  ELSE bindOutputsFrom(map(set_output(c, k, j, idents[j]),
                           idents[j], idents[j]),
                       k, idents, j + 1)

\* One target of an assignment: the output name is set and the target bound.
bindOutput(c, k, j, ident, name) ==
  LET c1 == map(set_output(c, k, j, name), ident, name)
  IN IF ident = "_" THEN [c1 EXCEPT !.discards = @ \cup {name}] ELSE c1

\* The loop of emitAssignment over stmt.idents(), from the j-th on.
bindOutputsFrom(c, k, idents, j) ==
  IF j > Len(idents) THEN c
  ELSE bindOutputsFrom(
         IF idents[j] = "_"
           THEN LET c1 == fresh(c) IN bindOutput(c1, k, j, idents[j], c1.v)
           ELSE bindOutput(c, k, j, idents[j], idents[j]),
         k, idents, j + 1)

NoteAssign(c, k, idents) == Note(c, "assign", cur(c), idents, c.ops[k].output)

\* emitAssignment from `while (op->output_size() < ...)` on: c.r is op.
emitAssignmentTo(c, idents) ==
  LET k == c.r
      have == Len(c.ops[k].output)
      widened ==
        [c EXCEPT !.ops[k].output =
           IF have < Len(idents)
             THEN @ \o [j \in 1..(Len(idents) - have) |-> ""]
             ELSE @]
  IN NoteAssign(bindOutputsFrom(widened, k, idents, 1), k, idents)

emitAssignment(c, stmt) ==
  Then(IF stmt.reduction # "="
         THEN IF Len(stmt.idents) # 1
                THEN Throw(c, "MultiTargetReductionError")
                ELSE emit(c, Compound(stmt.reduction,
                                      <<Ident(stmt.idents[1]), stmt.rhs>>))
         ELSE emit(c, stmt.rhs),
       LAMBDA c1 : emitAssignmentTo(c1, stmt.idents))

emitExpressionStatement(c, stmt) ==
  Then(emit(c, stmt), LAMBDA c1 : [c1 EXCEPT !.ops[c1.r].output = <<>>])

SubNet(k, argName) == <<k, argName>>

\* op->add_arg(), set_name(argName), mutable_n() and push_back of it.
enter(c, k, argName) ==
  Note(push_back(add_arg(c, k, [NewArg EXCEPT !.name = argName,
                                              !.n = <<SubNet(k, argName)>>]),
                 SubNet(k, argName)),
       "push", SubNet(k, argName), <<>>, <<>>)

leave(c, k, argName) ==
  Note(pop_back(c), "pop", SubNet(k, argName), <<>>, <<>>)

\* emitInto with the Environment put back when the sub-graph is left.
emitInto_scoped(c, k, argName, stmts) ==
  Then(emitStatementsFrom(enter(c, k, argName), stmts, 1),
       LAMBDA c3 : leave([c3 EXCEPT !.env = c.env], k, argName))

\* Lower `stmts` into the NetDef of argument `argName` of operation k.
emitInto(c, k, argName, stmts) ==
  Then(emitStatementsFrom(enter(c, k, argName), stmts, 1),
       LAMBDA c3 : leave(c3, k, argName))

emitIf(c, stmt) ==
  Then(getValue(c, stmt.cond),
       LAMBDA c1 :
         LET k == Len(c1.ops) + 1
         IN Then(emitInto(add_input(add_op(c1, "If"), k, c1.v), k,
                          "then_net", stmt.trueBranch),
                 LAMBDA c3 :
                   IF Len(stmt.falseBranch) > 0
                     THEN emitInto(c3, k, "else_net", stmt.falseBranch)
                     ELSE c3))

\* emitWhile that leaves the condition operation's own output name.
emitWhile_keepsCondOutput(c, stmt) ==
  LET c1 == fresh(c)
  IN Then(emitConst(c1, 0, c1.v, "i"),
          LAMBDA c2 :
            LET k == Len(c2.ops) + 1
            IN Then(emit(enter(add_op(c2, "While"), k, "cond_net"), stmt.cond),
                    LAMBDA c5 :
                      emitInto(add_input(leave(c5, k, "cond_net"), k, c1.v),
                               k, "loop_net", stmt.body)))

emitWhile(c, stmt) ==
  LET c1 == fresh(c)
  IN Then(emitConst(c1, 0, c1.v, "i"),
          LAMBDA c2 :
            LET k == Len(c2.ops) + 1
            IN Then(emit(enter(add_op(c2, "While"), k, "cond_net"), stmt.cond),
                    LAMBDA c5 :
                      emitInto(
                        add_input(leave(set_output(c5, c5.r, 1, c1.v),
                                        k, "cond_net"),
                                  k, c1.v),
                        k, "loop_net", stmt.body)))

emitStatementsFrom(c, statements, j) ==
  IF j > Len(statements) THEN c
  ELSE Then(CASE statements[j].kind = "TK_IF" -> emitIf(c, statements[j])
              [] statements[j].kind = "TK_WHILE" -> emitWhile(c, statements[j])
              [] statements[j].kind = "TK_ASSIGN" ->
                   emitAssignment(c, statements[j])
              [] OTHER -> emitExpressionStatement(c, statements[j]),
            LAMBDA c1 : emitStatementsFrom(c1, statements, j + 1))

emitStatements(c, statements) == emitStatementsFrom(c, statements, 1)

RECURSIVE mapAllFrom(_, _, _)
mapAllFrom(c, names, j) ==
  IF j > Len(names) THEN c
  ELSE mapAllFrom(map(c, names[j], names[j]), names, j + 1)

run(c) ==
  emitStatements(
    mapAllFrom(mapAllFrom([c EXCEPT !.name = c.def.name], c.def.params, 1),
               c.def.returns, 1),
    c.def.statements)

(***************************************************************************)
(* CompilationUnitImpl.  A unit is its registry `functions`, the           *)
(* DefCompilers it has run (`history`) and the exception, if any, that     *)
(* left the call (`err`, with the function `name` it was raised for).      *)
(***************************************************************************)
NetDefOf(c) == [name |-> c.name, op |-> c.ops]

Unit(fs, h) == [functions |-> fs, history |-> h, err |-> "none", name |-> ""]

\* The unit after DefCompiler c has run on the NetDef emplaced under
\* def's name: the compiler writes into the registry's NetDef in place, so
\* whatever was built when run() returns or throws is what the registry
\* holds.
compiled(u, def, c) ==
  [u EXCEPT
     !.functions = [n \in (DOMAIN u.functions) \cup {def.name} |->
                      IF n = def.name THEN NetDefOf(c) ELSE u.functions[n]],
     !.history = Append(@, c),
     !.err = c.err,
     !.name = IF c.err = "none" THEN "" ELSE def.name]

\* defineFunction without the check for an existing entry.
defineFunction_overwrite(u, def) == compiled(u, def, run(DefCompiler(def)))

defineFunction(u, def) ==
  IF def.name \in DOMAIN u.functions
    THEN [u EXCEPT !.err = "DuplicateDefinition", !.name = def.name]
    ELSE compiled(u, def, run(DefCompiler(def)))

RECURSIVE defineFrom(_, _, _)
defineFrom(u, defs, j) ==
  IF j > Len(defs) \/ u.err # "none" THEN u
  ELSE defineFrom(defineFunction(u, defs[j]), defs, j + 1)

define(u, defs) == defineFrom(u, defs, 1)

createNet(u, str) ==
  IF str \notin DOMAIN u.functions
    THEN [u EXCEPT !.err = "UndefinedFunction", !.name = str]
    ELSE [u EXCEPT !.name = str]

(***************************************************************************)
(* Inputs.  Function `f(c) -> (r)`: `c` is a parameter, `r` a return       *)
(* name, `a` a local that nothing binds before the body, `_` the discard   *)
(* identifier.                                                             *)
(***************************************************************************)
MaxStmts == 3

MaxDefines == 2

SeqsUpTo(S, n) == UNION {[1..k -> S] : k \in 1..n}

Atoms ==
  {Ident("a"), Ident("c"), Ident("r"), Ident("_"),
   Const(0, "i"), Const(1, "f"), Const(1, "q")}

Operands == {Ident("a"), Ident("c"), Ident("_"), Const(1, "i")}

ShapeList == List(<<Const(2, "i"), Const(2, "i")>>)

AttributeLists ==
  {<<>>, <<Attribute("shape", ShapeList)>>, <<Attribute("axis", Const(1, "i"))>>,
   <<Attribute("scale", Const(2, "f"))>>, <<Attribute("shape", Ident("c"))>>,
   <<Attribute("axis", Const(1, "i")), Attribute("like", Ident("c"))>>}

InputLists ==
  {<<>>, <<Ident("c")>>, <<Ident("a")>>, <<Const(1, "i")>>,
   <<Ident("c"), Ident("r")>>}

Exprs ==
  Atoms
  \cup {Compound("+", <<x, y>>) : x \in Operands, y \in Operands}
  \cup {Compound("-", <<x>>) : x \in Operands}
  \cup {Compound("<", <<Compound("+", <<x, Const(1, "i")>>), Ident("c")>>) :
          x \in Operands}
  \cup {Compound("TK_IF_EXPR", <<Ident("c"), x, Ident("r")>>) : x \in Operands}
  \cup {Cast(t, x) : t \in {"TK_INT", "TK_BOOL", "TK_STRING"},
                     x \in {Ident("c"), Ident("a")}}
  \cup {Apply(n, ins, attrs) : n \in {"zeros", "ones", "ones_like", "FC"},
                                ins \in InputLists, attrs \in AttributeLists}
  \cup {ShapeList}

SimpleStmts ==
  {Assign(ids, "=", e) :
     ids \in {<<"a">>, <<"_">>, <<"a", "_">>, <<"_", "_">>}, e \in Exprs}
  \cup {Assign(ids, red, e) :
          ids \in {<<"a">>, <<"c">>, <<"_">>, <<"a", "r">>},
          red \in {"+", "*"}, e \in {Ident("c"), Const(1, "i")}}
  \cup Exprs

\* The statements that sequences and branches are built from.
CoreStmts ==
  {Assign(<<"_">>, "=", Const(1, "i")),
   Assign(<<"_">>, "=", Ident("c")),
   Assign(<<"a">>, "=", Ident("_")),
   Assign(<<"a">>, "=", Const(1, "i")),
   Assign(<<"r">>, "=", Ident("a")),
   Assign(<<"a">>, "+", Const(1, "i")),
   Assign(<<"_">>, "+", Ident("c")),
   Apply("FC", <<Ident("c")>>, <<>>),
   Assign(<<"a">>, "=", Const(1, "q"))}

Conds == {Ident("c"), Ident("a"), Compound("<", <<Ident("a"), Ident("c")>>)}

Blocks == {<<s>> : s \in CoreStmts}

ControlStmts ==
  {If(e, tb, fb) : e \in Conds, tb \in Blocks, fb \in Blocks \cup {<<>>}}
  \cup {While(e, b) : e \in Conds \cup {Const(1, "q")}, b \in Blocks}
  \cup {If(Ident("c"), <<While(Ident("c"), b)>>, fb) :
          b \in Blocks, fb \in Blocks \cup {<<>>}}
  \cup {While(Ident("c"), <<If(Ident("c"), tb, fb), s>>) :
          tb \in Blocks, fb \in {<<>>, <<Assign(<<"r">>, "=", Ident("a"))>>},
          s \in CoreStmts}
  \cup {If(Ident("c"), <<While(Ident("c"), <<If(Ident("c"), tb, <<>>)>>), s>>,
           <<>>) :
          tb \in Blocks, s \in CoreStmts}

TopStmts ==
  CoreStmts
  \cup {If(Ident("c"), <<Assign(<<"a">>, "=", Const(1, "i"))>>,
           <<Assign(<<"r">>, "=", Ident("a"))>>),
        If(Ident("c"), <<Assign(<<"_">>, "=", Const(1, "i"))>>, <<>>),
        While(Ident("c"), <<Assign(<<"a">>, "=", Ident("c"))>>)}

Bodies ==
  {<<s>> : s \in SimpleStmts \cup ControlStmts}
  \cup SeqsUpTo(TopStmts, MaxStmts)

LowerDefs == {Def("f", <<"c">>, <<"r">>, b) : b \in Bodies}

Names == {"f", "g", "h"}

UnitBodies ==
  {<<>>,
   <<Assign(<<"_">>, "=", Ident("c"))>>,
   <<Assign(<<"a">>, "=", Ident("c")), Assign(<<"r">>, "=", Ident("b"))>>,
   <<While(Ident("c"), <<Assign(<<"a">>, "=", Const(1, "i"))>>)>>}

UnitDefs == {Def(n, <<"c">>, <<"r">>, b) : n \in Names, b \in UnitBodies}

UnitSources ==
  {<<d>> : d \in UnitDefs} \cup {<<d, e>> : d \in UnitDefs, e \in UnitDefs}

(***************************************************************************)
(* The unit as a state machine: define(str) and createNet(ws, str), each   *)
(* one step.  `source` is the functions the parser found in the text last  *)
(* given to define, `outcome` how the last call ended.                     *)
(***************************************************************************)
NoOutcome == [op |-> "none", err |-> "none", name |-> "", net |-> <<>>]

Init ==
  /\ functions = [n \in {} |-> NetDefOf(DefCompiler(Def("", <<>>, <<>>, <<>>)))]
  /\ history = <<>>
  /\ outcome = NoOutcome
  /\ source = <<>>

\* The variables after a call of define that left the unit as u.
Returned(u, defs) ==
  /\ functions' = u.functions
  /\ history' = u.history
  /\ outcome' = [op |-> "define", err |-> u.err, name |-> u.name,
                 net |-> <<>>]
  /\ source' = defs

DefineCall(defs) == Returned(define(Unit(functions, history), defs), defs)

Define ==
  \E defs \in UnitSources :
    /\ Len(history) + Len(defs) <= MaxDefines
    /\ DefineCall(defs)

\* The variables after a call of createNet that left the unit as u.
Created(u, str) ==
  /\ outcome' = [op |-> "createNet", err |-> u.err, name |-> u.name,
                 net |-> IF u.err = "none" THEN <<functions[str]>> ELSE <<>>]
  /\ source' = <<>>
  /\ UNCHANGED <<functions, history>>

CreateNet ==
  \E str \in Names : Created(createNet(Unit(functions, history), str), str)

Next == Define \/ CreateNet

Spec == Init /\ [][Next]_vars

\* One function lowered by a new unit: the function is drawn at the start.
InitLower ==
  /\ functions = [n \in {} |-> NetDefOf(DefCompiler(Def("", <<>>, <<>>, <<>>)))]
  /\ history = <<>>
  /\ outcome = NoOutcome
  /\ source \in {<<d>> : d \in LowerDefs}

Lower == outcome.op = "none" /\ DefineCall(source)

NextLower == Lower

SpecLower == InitLower /\ [][NextLower]_vars

(***************************************************************************)
(* Reading a compiled function.                                            *)
(***************************************************************************)
Range(s) == {s[i] : i \in DOMAIN s}

Compiled == Range(history)

Succeeded == {c \in Compiled : c.err = "none"}

\* NetDef `outer` is `inner` or holds it, directly or through sub-graphs.
RECURSIVE Encloses(_, _, _)
Encloses(ops, outer, inner) ==
  \/ inner = outer
  \/ inner[1] # 0 /\ Encloses(ops, outer, ops[inner[1]].net)

OpsOf(ops, net) == {k \in 1..Len(ops) : ops[k].net = net}

IsLastOf(ops, net, k) == k \in OpsOf(ops, net) /\ \A m \in OpsOf(ops, net) : m <= k

ArgNamed(op, name) == {j \in 1..Len(op.arg) : op.arg[j].name = name}

\* Whether lowering `tree` resolves identifier n through the Environment.
RECURSIVE ReadsIdent(_, _)
ReadsIdent(tree, n) ==
  CASE tree.kind = "TK_IDENT" -> tree.name = n
    [] tree.kind \in OperatorKinds ->
         \E j \in 1..Len(tree.trees) : ReadsIdent(tree.trees[j], n)
    [] tree.kind = "TK_APPLY" ->
         \E j \in 1..Len(tree.inputs) : ReadsIdent(tree.inputs[j], n)
    [] tree.kind = "TK_CAST" -> ReadsIdent(tree.input, n)
    [] tree.kind = "TK_ASSIGN" ->
         \/ tree.reduction # "=" /\ tree.idents[1] = n
         \/ ReadsIdent(tree.rhs, n)
    [] tree.kind = "TK_IF" ->
         \/ ReadsIdent(tree.cond, n)
         \/ \E j \in 1..Len(tree.trueBranch) : ReadsIdent(tree.trueBranch[j], n)
         \/ \E j \in 1..Len(tree.falseBranch) :
               ReadsIdent(tree.falseBranch[j], n)
    [] tree.kind = "TK_WHILE" ->
         \/ ReadsIdent(tree.cond, n)
         \/ \E j \in 1..Len(tree.body) : ReadsIdent(tree.body[j], n)
    [] OTHER -> FALSE

DefReads(def, n) ==
  \E j \in 1..Len(def.statements) : ReadsIdent(def.statements[j], n)

CompileErrors ==
  {"UnboundIdentifier", "MalformedLiteral", "UnknownType",
   "MultiTargetReductionError", "IntrinsicArityError",
   "UnrecognizedAttribute", "UnsupportedAttribute", "UnsupportedConstruct"}

(***************************************************************************)
(* C1.  A function whose lowering raises an error has no entry in the      *)
(* registry when define returns that error.                                *)
(***************************************************************************)
C1_FailedFunctionNotRegistered ==
  (outcome.op = "define" /\ outcome.err \in CompileErrors)
    => outcome.name \notin DOMAIN functions

(***************************************************************************)
(* C2.  A define of a name the registry already holds raises               *)
(* DuplicateDefinition, and no step overwrites or removes an entry: every  *)
(* entry of the registry is there, unchanged, after every call.            *)
(***************************************************************************)
IsRedefinition(defs, j) ==
  \/ defs[j].name \in DOMAIN functions
  \/ \E i \in 1..(j - 1) : defs[i].name = defs[j].name

C2_RegistryWriteOnce ==
  [][ /\ \A n \in DOMAIN functions :
           n \in DOMAIN functions' /\ functions'[n] = functions[n]
      /\ outcome'.op = "define" =>
           /\ (\E j \in 1..Len(source') : IsRedefinition(source', j))
                => outcome'.err # "none"
           /\ (source'[1].name \in DOMAIN functions)
                => /\ outcome'.err = "DuplicateDefinition"
                   /\ outcome'.name = source'[1].name
                   /\ functions' = functions
           /\ outcome'.err = "DuplicateDefinition"
                => outcome'.name \in DOMAIN functions'
    ]_vars

C2_Witness ==
  /\ outcome.op = "define"
  /\ outcome.err = "DuplicateDefinition"
  /\ outcome.name \in DOMAIN functions
  /\ functions[outcome.name].op # <<>>
  /\ source[1].name = outcome.name
  /\ source[1].statements = <<>>

(***************************************************************************)
(* C3.  No two operations of a compiled function, nested sub-graphs        *)
(* included, declare the same fresh name as an output.                     *)
(***************************************************************************)
SharedFresh(c, i, j) ==
  (Range(c.ops[i].output) \cap Range(c.ops[j].output)) \cap Range(c.issued)

C3_FreshOutputsUnique ==
  \A c \in Succeeded :
    \A i \in 1..Len(c.ops) : \A j \in (i + 1)..Len(c.ops) :
      SharedFresh(c, i, j) = {}

\* Operations i < j are the constant that initialises the loop-control
\* name n of the While operation i + 1 and the last operation of that
\* loop's condition sub-graph.
IsLoopControlPair(c, i, j, n) ==
  /\ c.ops[i].type = "ConstantFill"
  /\ c.ops[i].output = <<n>>
  /\ i + 1 <= Len(c.ops)
  /\ c.ops[i + 1].type = "While"
  /\ c.ops[i + 1].net = c.ops[i].net
  /\ c.ops[i + 1].input = <<n>>
  /\ IsLastOf(c.ops, <<i + 1, "cond_net">>, j)
  /\ c.ops[j].output[1] = n

\* C3 as amended: no two operations declare the same fresh output name,
\* except that the loop-control name of a while statement is declared by
\* exactly two: its initialising constant in the enclosing graph and the
\* last operation of the loop's condition sub-graph.
C3_FreshOutputsUniqueButLoopControl ==
  \A c \in Compiled :
    \A i \in 1..Len(c.ops) : \A j \in (i + 1)..Len(c.ops) :
      \A n \in SharedFresh(c, i, j) : IsLoopControlPair(c, i, j, n)

C3_Witness ==
  \E c \in Succeeded :
    /\ Len(c.issued) >= 4
    /\ c.discards # {}
    /\ \E i \in 1..Len(c.ops) : \E j \in (i + 1)..Len(c.ops) :
         SharedFresh(c, i, j) # {}

(***************************************************************************)
(* C4.  Every input name of an operation is a parameter or return name,    *)
(* or an output of an operation emitted strictly earlier in the same or an *)
(* enclosing graph, or a discard-target name.                              *)
(***************************************************************************)
Declared(c) == Range(c.def.params) \cup Range(c.def.returns)

C4_InputsBoundInScope ==
  \A c \in Succeeded :
    \A j \in 1..Len(c.ops) : \A x \in Range(c.ops[j].input) :
      \/ x \in Declared(c)
      \/ \E i \in 1..(j - 1) :
           /\ x \in Range(c.ops[i].output)
           /\ Encloses(c.ops, c.ops[i].net, c.ops[j].net)
      \/ x \in c.discards

\* C4 as amended: the producing operation is emitted strictly earlier, in
\* any graph of the function (the same one, an enclosing one, or a sibling
\* or nested sub-graph lowered earlier).
C4_InputsBoundEarlier ==
  \A c \in Succeeded :
    \A j \in 1..Len(c.ops) : \A x \in Range(c.ops[j].input) :
      \/ x \in Declared(c)
      \/ \E i \in 1..(j - 1) : x \in Range(c.ops[i].output)

C4_Witness ==
  \E c \in Succeeded :
    \E j \in 1..Len(c.ops) : \E x \in Range(c.ops[j].input) :
      /\ x \notin Declared(c) \cup c.discards
      /\ \E i \in 1..(j - 1) : x \in Range(c.ops[i].output)
      /\ \A i \in 1..(j - 1) :
           x \in Range(c.ops[i].output)
             => ~Encloses(c.ops, c.ops[i].net, c.ops[j].net)

(***************************************************************************)
(* C5.  Two assignments to `_` in sequence give their operations two       *)
(* distinct fresh output names, and neither name is an input of any        *)
(* operation emitted later in the function.                                *)
(***************************************************************************)
\* p and p + 1 are the log entries of two assignments to `_` in sequence.
DiscardPairs(c) ==
  {p \in 1..(Len(c.log) - 1) :
     /\ c.log[p].ev = "assign" /\ c.log[p].idents = <<"_">>
     /\ c.log[p + 1].ev = "assign" /\ c.log[p + 1].idents = <<"_">>}

LaterOps(c, p) == (c.log[p + 1].nops + 1)..Len(c.ops)

C5_DiscardNamesNeverRead ==
  \A c \in Succeeded : \A p \in DiscardPairs(c) :
    LET n1 == c.log[p].names[1]
        n2 == c.log[p + 1].names[1]
    IN /\ n1 # n2
       /\ {n1, n2} \subseteq Range(c.issued)
       /\ \A k \in LaterOps(c, p) : {n1, n2} \cap Range(c.ops[k].input) = {}

\* C5 as amended: the names are distinct and fresh; the first is an input
\* of no operation emitted after the second assignment; the second is an
\* input of a later operation only where a later statement reads the
\* identifier `_` before `_` is assigned again (a read of `_` resolves to
\* the name given by the latest assignment to it).
C5_DiscardNamesReadOnlyThroughDiscard ==
  \A c \in Compiled : \A p \in DiscardPairs(c) :
    LET n1 == c.log[p].names[1]
        n2 == c.log[p + 1].names[1]
    IN /\ n1 # n2
       /\ {n1, n2} \subseteq Range(c.issued)
       /\ \A k \in LaterOps(c, p) :
            /\ n1 \notin Range(c.ops[k].input)
            /\ n2 \in Range(c.ops[k].input) =>
                 /\ DefReads(c.def, "_")
                 /\ \A q \in (p + 2)..Len(c.log) :
                      (c.log[q].ev = "assign" /\ "_" \in Range(c.log[q].idents))
                        => k <= c.log[q].nops

C5_Witness ==
  \E c \in Succeeded : \E p \in DiscardPairs(c) :
    /\ \E k \in LaterOps(c, p) :
         c.log[p + 1].names[1] \in Range(c.ops[k].input)
    /\ c.log[p].names[1] # c.log[p + 1].names[1]

(***************************************************************************)
(* C6.  zeros and ones take exactly one of {one operand, a shape           *)
(* attribute}: with neither, and with both, the call raises                *)
(* IntrinsicArityError and no fill operation is emitted.                   *)
(***************************************************************************)
\* The call, if the function is one statement that is or assigns a call.
CallsOf(def) ==
  IF Len(def.statements) # 1 THEN {}
  ELSE LET stmt == def.statements[1]
           e == IF stmt.kind = "TK_ASSIGN" THEN stmt.rhs ELSE stmt
       IN IF e.kind = "TK_APPLY"
               /\ (stmt.kind = "TK_ASSIGN" => stmt.reduction = "=")
            THEN {e} ELSE {}

\* Operands that lower without an error of their own.
PlainOperands(def, e) ==
  \A j \in 1..Len(e.inputs) :
    /\ e.inputs[j].kind = "TK_IDENT"
    /\ e.inputs[j].name \in Range(def.params) \cup Range(def.returns)

HasShape(e) == \E j \in 1..Len(e.attributes) : e.attributes[j].name = "shape"

OnlyShape(e) == \A j \in 1..Len(e.attributes) : e.attributes[j].name = "shape"

\* An attribute value that fillArg has no case for.
UnsupportedValue(e) ==
  \E j \in 1..Len(e.attributes) :
    e.attributes[j].value.kind \notin {"TK_CONST", "TK_LIST"}

\* The operations emitFillOp emits: a ConstantFill without a dtype.
FillOps(c) ==
  {k \in 1..Len(c.ops) :
     /\ c.ops[k].type = "ConstantFill"
     /\ ArgNamed(c.ops[k], "dtype") = {}}

C6_ZerosOnesExactlyOne ==
  \A c \in Compiled : \A e \in CallsOf(c.def) :
    ( /\ e.name \in {"zeros", "ones"}
      /\ PlainOperands(c.def, e) /\ OnlyShape(e) /\ ~UnsupportedValue(e)
      /\ \/ Len(e.inputs) = 0 /\ ~HasShape(e)
         \/ Len(e.inputs) = 1 /\ HasShape(e) )
    => c.err = "IntrinsicArityError" /\ FillOps(c) = {}

(***************************************************************************)
(* C7.  A while statement emits, in the enclosing graph and in this order, *)
(* a zero constant whose output is a newly generated loop-control name and *)
(* a While operation whose sole input is that name; the last operation of  *)
(* the condition sub-graph has that name as its output; the body is        *)
(* lowered only into the body sub-graph, and the active graph is then the  *)
(* enclosing graph again.                                                  *)
(***************************************************************************)
WhileOps(c) == {k \in 1..Len(c.ops) : c.ops[k].type = "While"}

C7_WhileShape ==
  \A c \in Succeeded : \A k \in WhileOps(c) :
    LET ops == c.ops
        body == <<k, "loop_net">>
        cond == <<k, "cond_net">>
    IN /\ k > 1
       /\ ops[k - 1].type = "ConstantFill"
       /\ ops[k - 1].net = ops[k].net
       /\ \E lv \in Range(c.issued) :
            /\ ops[k - 1].output = <<lv>>
            /\ \A i \in 1..(k - 2) :
                 lv \notin Range(ops[i].output) \cup Range(ops[i].input)
            /\ ops[k].input = <<lv>>
            /\ \E j \in OpsOf(ops, cond) :
                 IsLastOf(ops, cond, j) /\ ops[j].output[1] = lv
       /\ \E j \in ArgNamed(ops[k - 1], "value") :
            ops[k - 1].arg[j].i = <<0>>
       /\ [j \in 1..Len(ops[k].arg) |-> ops[k].arg[j].name]
            = <<"cond_net", "loop_net">>
       /\ \E p \in 1..Len(c.log) : \E q \in (p + 1)..Len(c.log) :
            /\ c.log[p].ev = "push" /\ c.log[p].net = body
            /\ c.log[q].ev = "pop" /\ c.log[q].net = body
            /\ c.log[p].stack = Append(c.log[q].stack, body)
            /\ c.log[q].stack[Len(c.log[q].stack)] = ops[k].net
            /\ \A m \in 1..Len(ops) :
                 (m \in (c.log[p].nops + 1)..c.log[q].nops)
                   <=> Encloses(ops, body, ops[m].net)

C7_Witness ==
  \E c \in Succeeded : \E k \in WhileOps(c) :
    /\ c.ops[k].net # RootNet
    /\ \E m \in 1..Len(c.ops) :
         /\ c.ops[m].net # <<k, "loop_net">>
         /\ Encloses(c.ops, <<k, "loop_net">>, c.ops[m].net)
    /\ \E m \in (k + 1)..Len(c.ops) : c.ops[m].net = c.ops[k].net

(***************************************************************************)
(* C8.  In a generic call, a keyword argument whose value is neither a     *)
(* numeric literal nor a list of them is rejected with UnsupportedAttribute*)
(* and no attribute with an unset value is attached to the operation.      *)
(***************************************************************************)
C8_UnsupportedAttributeRejected ==
  \A c \in Compiled :
    /\ \A e \in CallsOf(c.def) :
         (e.name \notin Builtins /\ PlainOperands(c.def, e)
          /\ UnsupportedValue(e))
           => c.err = "UnsupportedAttribute"
    /\ \A k \in 1..Len(c.ops) :
         (\E e \in CallsOf(c.def) : e.name \notin Builtins
                                     /\ c.ops[k].type = e.name)
           => \A j \in 1..Len(c.ops[k].arg) : ~ArgUnset(c.ops[k].arg[j])

(***************************************************************************)
(* C9.  Within one unit, across the functions define compiles, no fresh    *)
(* name is issued twice.                                                   *)
(***************************************************************************)
C9_FreshNamesUniqueInUnit ==
  \A i \in 1..Len(history) : \A j \in 1..Len(history) :
    \A p \in 1..Len(history[i].issued) : \A q \in 1..Len(history[j].issued) :
      (i # j \/ p # q) => history[i].issued[p] # history[j].issued[q]

\* C9 as amended: within the compilation of one function no fresh name is
\* issued twice; the numbering starts again with each function, so the
\* functions of a unit are given the same fresh names.
C9_FreshNamesUniqueInFunction ==
  \A c \in Compiled :
    /\ \A p \in 1..Len(c.issued) : \A q \in 1..Len(c.issued) :
         p # q => c.issued[p] # c.issued[q]
    /\ c.issued # <<>> => c.issued[1] = "$t0"

C9_Witness ==
  /\ Len(history) >= 2
  /\ Len(history[1].issued) >= 2
  /\ Len(history[2].issued) >= 2
  /\ history[1].def.statements # history[2].def.statements

(***************************************************************************)
(* C10.  Bindings made while lowering a branch of an if (or a while body)  *)
(* are visible only in that branch: when the else-branch starts, and when  *)
(* the statements after the control statement start, the Environment holds *)
(* exactly the bindings it held just before the branch was entered.        *)
(***************************************************************************)
IsBranch(net) == net[2] \in {"then_net", "else_net", "loop_net"}

C10_BranchBindingsScoped ==
  \A c \in Succeeded :
    \A p \in 1..Len(c.log) : \A q \in (p + 1)..Len(c.log) :
      ( /\ c.log[p].ev = "push" /\ c.log[q].ev = "pop"
        /\ c.log[p].net = c.log[q].net /\ IsBranch(c.log[p].net) )
      => c.log[q].env = c.log[p].env

\* The name the assignment logged at p gave identifier x.
BoundTo(c, p, x) ==
  LET ms == {m \in 1..Len(c.log[p].idents) : c.log[p].idents[m] = x}
      last == CHOOSE m \in ms : \A o \in ms : o <= m
  IN c.log[p].names[last]

\* C10 as amended: the Environment is one mapping for the whole function
\* and a branch's bindings are not undone when the branch ends: when the
\* else-branch starts, and when the statements after the control statement
\* start, it holds every binding made so far, each identifier resolving to
\* the name its latest assignment gave it, so an identifier first bound in
\* the then-branch does resolve in the else-branch.
C10_BranchBindingsPersist ==
  \A c \in Compiled :
    \A p \in 1..Len(c.log) : \A q \in p..Len(c.log) :
      /\ DOMAIN c.log[p].env \subseteq DOMAIN c.log[q].env
      /\ DOMAIN c.log[q].env \subseteq DOMAIN c.env
      /\ c.log[p].ev = "assign" =>
           \A x \in Range(c.log[p].idents) :
             (\A o \in (p + 1)..q :
                ~(c.log[o].ev = "assign" /\ x \in Range(c.log[o].idents)))
               => c.log[q].env[x] = BoundTo(c, p, x)

C10_Witness ==
  \E c \in Succeeded :
    \E p \in 1..Len(c.log) : \E q \in (p + 1)..Len(c.log) :
      /\ c.log[p].ev = "push" /\ c.log[p].net[2] = "then_net"
      /\ c.log[q].ev = "push" /\ c.log[q].net = <<c.log[p].net[1], "else_net">>
      /\ \E x \in (DOMAIN c.log[q].env) \ (DOMAIN c.log[p].env) :
           \E k \in OpsOf(c.ops, c.log[q].net) : x \in Range(c.ops[k].input)

====
